---- MODULE Spec2Model ----
(***************************************************************************)
(* Model of the game-logic engine of tetris.py: Tetromino, TetrisGame and  *)
(* the four GameState classes (Playing, Paused, LineClearing, GameOver).   *)
(* Rendering (the draw methods) and the pygame event loop are left out;     *)
(* the loop's                                                              *)
(* effect is the interleaving of key events and update(delta_time) calls.  *)
(*                                                                         *)
(* Grid rows and columns are 0-based as in the source; the TLA+ sequences  *)
(* that hold them are 1-based, so grid[y][x] of the source is              *)
(* grid[y + 1][x + 1] here.                                                *)
(***************************************************************************)
EXTENDS Integers, Sequences, FiniteSets, TLC

(***************************************************************************)
(* Bounds of the model.  The source plays on a 10 x 20 grid; the model     *)
(* plays the same code on a smaller grid so that stacks reach the top and  *)
(* rows fill within the explored depth.                                    *)
(***************************************************************************)
GRID_WIDTH == 4
GRID_HEIGHT == 5
\* a game is explored until this many pieces have been locked
MaxPieces == 3
\* a game is explored while at most this many points have come from drops
MaxDropScore == 2

\* the piece kinds random.choice draws from, a subset of SHAPES.keys()
PlayKinds == {"I", "O"}
\* the elapsed times clock.tick delivers (milliseconds)
Deltas == {400, 1000}

(***************************************************************************)
(* Constants of the source.                                                *)
(***************************************************************************)
AllKinds == {"I", "O", "T", "S", "Z", "J", "L"}

SHAPES(k) ==
    CASE k = "I" -> << <<1, 1, 1, 1>> >>
      [] k = "O" -> << <<1, 1>>, <<1, 1>> >>
      [] k = "T" -> << <<0, 1, 0>>, <<1, 1, 1>> >>
      [] k = "S" -> << <<0, 1, 1>>, <<1, 1, 0>> >>
      [] k = "Z" -> << <<1, 1, 0>>, <<0, 1, 1>> >>
      [] k = "J" -> << <<1, 0, 0>>, <<1, 1, 1>> >>
      [] k = "L" -> << <<0, 0, 1>>, <<1, 1, 1>> >>

COLORS(k) ==
    CASE k = "I" -> "CYAN"
      [] k = "O" -> "YELLOW"
      [] k = "T" -> "PURPLE"
      [] k = "S" -> "GREEN"
      [] k = "Z" -> "RED"
      [] k = "J" -> "BLUE"
      [] k = "L" -> "ORANGE"

\* Python's None, as a grid cell
None == "None"
\* Python's None, as a piece (hold_piece before the first hold)
NoPiece == [type |-> "None", shape |-> << >>, color |-> "None", x |-> 0, y |-> 0]

INITIAL_FALL_SPEED == 1000
MIN_FALL_SPEED == 100
FALL_SPEED_STEP == 100
LINES_PER_LEVEL == 10
CLEAR_ANIMATION_DURATION == 500
SOFT_DROP_BONUS == 1
HARD_DROP_BONUS == 2

(***************************************************************************)
(* Tetromino                                                               *)
(***************************************************************************)
\* Tetromino.__init__
Tetromino(k) ==
    [type  |-> k,
     shape |-> SHAPES(k),
     color |-> COLORS(k),
     x     |-> (GRID_WIDTH \div 2) - (Len(SHAPES(k)[1]) \div 2),
     y     |-> 0]

\* m[::-1]
RECURSIVE Reverse(_)
Reverse(m) == IF m = << >> THEN << >> ELSE Append(Reverse(Tail(m)), Head(m))

\* the i-th tuple zip(*m) yields: the i-th cell of rows j.. of m
RECURSIVE Column(_, _, _)
Column(m, i, j) ==
    IF j > Len(m) THEN << >> ELSE <<m[j][i]>> \o Column(m, i, j + 1)

\* [list(row) for row in zip(*m)], from the i-th tuple on
RECURSIVE Zip(_, _)
Zip(m, i) ==
    IF i > Len(m[1]) THEN << >> ELSE <<Column(m, i, 1)>> \o Zip(m, i + 1)

\* rotate_clockwise written for a square matrix: as many columns are read as
\* there are rows
rotate_clockwise_assuming_square(shape) ==
    Zip(Reverse([i \in 1..Len(shape) |-> SubSeq(shape[i], 1, Len(shape))]), 1)

\* Tetromino.rotate_clockwise, on the shape
rotate_clockwise(shape) == Zip(Reverse(shape), 1)

\* rotate_counterclockwise with the [::-1] applied before the zip
rotate_counterclockwise_reversing_first(shape) == Zip(Reverse(shape), 1)

\* Tetromino.rotate_counterclockwise, on the shape
rotate_counterclockwise(shape) == Reverse(Zip(shape, 1))

\* Tetromino.get_blocks: the (x, y) grid positions of the piece's cells, in
\* the order of the scan (row by row), from cell cx of row cy on
RECURSIVE blocks_from(_, _, _)
blocks_from(p, cy, cx) ==
    IF cy > Len(p.shape) THEN << >>
    ELSE IF cx > Len(p.shape[cy]) THEN blocks_from(p, cy + 1, 1)
    ELSE IF p.shape[cy][cx] # 0
         THEN << <<p.x + (cx - 1), p.y + (cy - 1)>> >> \o blocks_from(p, cy, cx + 1)
         ELSE blocks_from(p, cy, cx + 1)

\* Tetromino.get_blocks
get_blocks(p) == blocks_from(p, 1, 1)

(***************************************************************************)
(* The session: the fields of TetrisGame.                                  *)
(***************************************************************************)
VARIABLES grid, current_piece, next_piece, hold_piece, can_hold, score, level,
          lines_cleared, game_over, fall_time, fall_speed, clearing_lines,
          clear_animation_time, show_ghost, state

vars == <<grid, current_piece, next_piece, hold_piece, can_hold, score, level,
          lines_cleared, game_over, fall_time, fall_speed, clearing_lines,
          clear_animation_time, show_ghost, state>>

\* the fields, as one record the methods below transform
Session ==
    [grid |-> grid, current_piece |-> current_piece, next_piece |-> next_piece,
     hold_piece |-> hold_piece, can_hold |-> can_hold, score |-> score,
     level |-> level, lines_cleared |-> lines_cleared, game_over |-> game_over,
     fall_time |-> fall_time, fall_speed |-> fall_speed,
     clearing_lines |-> clearing_lines,
     clear_animation_time |-> clear_animation_time,
     show_ghost |-> show_ghost, state |-> state]

\* the fields after a handler has returned with the session s
Becomes(s) ==
    /\ grid' = s.grid
    /\ current_piece' = s.current_piece
    /\ next_piece' = s.next_piece
    /\ hold_piece' = s.hold_piece
    /\ can_hold' = s.can_hold
    /\ score' = s.score
    /\ level' = s.level
    /\ lines_cleared' = s.lines_cleared
    /\ game_over' = s.game_over
    /\ fall_time' = s.fall_time
    /\ fall_speed' = s.fall_speed
    /\ clearing_lines' = s.clearing_lines
    /\ clear_animation_time' = s.clear_animation_time
    /\ show_ghost' = s.show_ghost
    /\ state' = s.state

\* [None for _ in range(n)]
RECURSIVE Repeat(_, _)
Repeat(v, n) == IF n = 0 THEN << >> ELSE <<v>> \o Repeat(v, n - 1)

EmptyRow == Repeat(None, GRID_WIDTH)
EmptyGrid == Repeat(EmptyRow, GRID_HEIGHT)

\* is_valid_position with the cells above the board (new_y < 0) exempt
\* from the horizontal-bounds check as well
is_valid_position_skipping_cells_above(g, piece, offset_x, offset_y) ==
    LET blocks == get_blocks(piece)
    IN  \A i \in 1..Len(blocks) :
            LET new_x == blocks[i][1] + offset_x
                new_y == blocks[i][2] + offset_y
            IN  \/ new_y < 0
                \/ /\ ~(new_x < 0 \/ new_x >= GRID_WIDTH \/ new_y >= GRID_HEIGHT)
                   /\ g[new_y + 1][new_x + 1] = None

\* TetrisGame.is_valid_position, on the grid g
is_valid_position(g, piece, offset_x, offset_y) ==
    LET blocks == get_blocks(piece)
    IN  \A i \in 1..Len(blocks) :
            LET new_x == blocks[i][1] + offset_x
                new_y == blocks[i][2] + offset_y
            IN  /\ ~(new_x < 0 \/ new_x >= GRID_WIDTH \/ new_y >= GRID_HEIGHT)
                /\ ~(new_y >= 0 /\ g[new_y + 1][new_x + 1] # None)

\* spawn_new_piece without its `self.can_hold = True`
spawn_new_piece_keeping_hold_disabled(s, k) ==
    LET t == [s EXCEPT !.current_piece = s.next_piece,
                       !.next_piece = Tetromino(k)]
    IN  IF ~is_valid_position(t.grid, t.current_piece, 0, 0)
        THEN [t EXCEPT !.game_over = TRUE, !.state = "GameOver"]
        ELSE t

\* TetrisGame.spawn_new_piece; k is the kind get_random_piece draws
spawn_new_piece(s, k) ==
    LET t == [s EXCEPT !.current_piece = s.next_piece,
                       !.next_piece = Tetromino(k),
                       !.can_hold = TRUE]
    IN  IF ~is_valid_position(t.grid, t.current_piece, 0, 0)
        THEN [t EXCEPT !.game_over = TRUE, !.state = "GameOver"]
        ELSE t

\* TetrisGame.move_piece: the value it returns
move_ok(s, dx, dy) == is_valid_position(s.grid, s.current_piece, dx, dy)

\* TetrisGame.move_piece: the session it leaves
move_piece(s, dx, dy) ==
    IF move_ok(s, dx, dy)
    THEN [s EXCEPT !.current_piece.x = @ + dx, !.current_piece.y = @ + dy]
    ELSE s

\* TetrisGame.rotate_piece: the first wall kick of `kicks` (a sequence of
\* offsets) that is valid for the rotated piece r, or 0 when none is
RECURSIVE first_kick(_, _, _, _)
first_kick(g, r, kicks, i) ==
    IF i > Len(kicks) THEN 0
    ELSE IF is_valid_position(g, r, kicks[i][1], kicks[i][2]) THEN i
    ELSE first_kick(g, r, kicks, i + 1)

KICKS == << <<0, 0>>, <<-1, 0>>, <<1, 0>>, <<0, -1>>, <<-1, -1>>, <<1, -1>> >>

\* rotate_piece without its final `self.current_piece.shape = original_shape`
rotate_piece_not_restoring(s) ==
    LET r == [s.current_piece EXCEPT !.shape = rotate_clockwise(s.current_piece.shape)]
        i == first_kick(s.grid, r, KICKS, 1)
    IN  IF i # 0
        THEN [s EXCEPT !.current_piece =
                 [r EXCEPT !.x = @ + KICKS[i][1], !.y = @ + KICKS[i][2]]]
        ELSE [s EXCEPT !.current_piece = r]

\* TetrisGame.rotate_piece
rotate_piece(s) ==
    LET original_shape == s.current_piece.shape
        r == [s.current_piece EXCEPT !.shape = rotate_clockwise(original_shape)]
        i == first_kick(s.grid, r, KICKS, 1)
    IN  IF i # 0
        THEN [s EXCEPT !.current_piece =
                 [r EXCEPT !.x = @ + KICKS[i][1], !.y = @ + KICKS[i][2]]]
        ELSE [s EXCEPT !.current_piece = [r EXCEPT !.shape = original_shape]]

\* the number of times `while self.move_piece(0, 1)` moves the piece p
\* (hard_drop), or `while self.is_valid_position(ghost, 0, 1)` the ghost
RECURSIVE drop_distance(_, _)
drop_distance(g, p) ==
    IF is_valid_position(g, p, 0, 1)
    THEN 1 + drop_distance(g, [p EXCEPT !.y = @ + 1])
    ELSE 0

\* Tetromino.copy
copy(p) == [Tetromino(p.type) EXCEPT !.shape = p.shape, !.x = p.x, !.y = p.y]

\* TetrisGame.get_ghost_piece
get_ghost_piece(s) ==
    LET ghost == copy(s.current_piece)
    IN  [ghost EXCEPT !.y = @ + drop_distance(s.grid, ghost)]

\* get_ghost_piece without the copy: `ghost` is the current piece itself,
\* and the loop moves it
get_ghost_piece_in_place(s) ==
    [s EXCEPT !.current_piece.y = @ + drop_distance(s.grid, s.current_piece)]

\* TetrisGame.get_ghost_piece: the session the call leaves.  The loop's
\* `ghost.y += 1` writes to the copy, a new Tetromino, and to no field of
\* the session
after_get_ghost_piece(s) == s

\* TetrisGame.draw_grid: the session it leaves; of its statements only the
\* call of get_ghost_piece touches anything but the screen
draw_grid(s) ==
    IF s.current_piece # NoPiece /\ s.show_ghost /\ s.clearing_lines = << >>
    THEN after_get_ghost_piece(s)
    ELSE s

\* lock_piece's loop without its `if y >= 0`: a negative y indexes the
\* grid from its end
RECURSIVE lock_cells_unguarded(_, _, _, _)
lock_cells_unguarded(g, blocks, color, i) ==
    IF i > Len(blocks) THEN g
    ELSE LET y == IF blocks[i][2] >= 0 THEN blocks[i][2] ELSE Len(g) + blocks[i][2]
         IN  lock_cells_unguarded([g EXCEPT ![y + 1][blocks[i][1] + 1] = color],
                                  blocks, color, i + 1)

\* the loop of lock_piece over the blocks from the i-th on: the colour is
\* written into grid[y][x] for each block with y >= 0
RECURSIVE lock_cells(_, _, _, _)
lock_cells(g, blocks, color, i) ==
    IF i > Len(blocks) THEN g
    ELSE IF blocks[i][2] >= 0
         THEN lock_cells([g EXCEPT ![blocks[i][2] + 1][blocks[i][1] + 1] = color],
                         blocks, color, i + 1)
         ELSE lock_cells(g, blocks, color, i + 1)

\* the scan of clear_lines collecting the complete rows bottom row first
RECURSIVE lines_to_clear_bottom_first(_, _)
lines_to_clear_bottom_first(g, y) ==
    IF y >= GRID_HEIGHT THEN << >>
    ELSE IF \A x \in 0..(GRID_WIDTH - 1) : g[y + 1][x + 1] # None
         THEN lines_to_clear_bottom_first(g, y + 1) \o <<y>>
         ELSE lines_to_clear_bottom_first(g, y + 1)

\* the rows clear_lines finds complete, top to bottom (0-based), from
\* row y on
RECURSIVE lines_to_clear(_, _)
lines_to_clear(g, y) ==
    IF y >= GRID_HEIGHT THEN << >>
    ELSE IF \A x \in 0..(GRID_WIDTH - 1) : g[y + 1][x + 1] # None
         THEN <<y>> \o lines_to_clear(g, y + 1)
         ELSE lines_to_clear(g, y + 1)

\* line_scores.get(num_lines, 0)
line_scores(n) ==
    CASE n = 1 -> 100
      [] n = 2 -> 300
      [] n = 3 -> 500
      [] n = 4 -> 800
      [] OTHER -> 0

\* max(a, b)
max(a, b) == IF a >= b THEN a ELSE b

\* clear_lines with the level-up placed before the scoring, so that a clear
\* which raises the level is paid at the new level
clear_lines_paying_new_level(s) ==
    LET lines == lines_to_clear(s.grid, 0)
        num_lines == Len(lines)
        total == s.lines_cleared + num_lines
        new_level == max(s.level, (total \div LINES_PER_LEVEL) + 1)
    IN  IF lines = << >> THEN s
        ELSE [s EXCEPT !.clearing_lines = lines,
                       !.clear_animation_time = 0,
                       !.lines_cleared = total,
                       !.score = @ + line_scores(num_lines) * new_level,
                       !.level = new_level,
                       !.fall_speed = IF new_level > s.level
                                      THEN max(MIN_FALL_SPEED, INITIAL_FALL_SPEED
                                                 - (new_level - 1) * FALL_SPEED_STEP)
                                      ELSE @,
                       !.state = "LineClearing"]

\* clear_lines with the new level computed before the cleared lines are
\* counted
clear_lines_levelling_late(s) ==
    LET lines == lines_to_clear(s.grid, 0)
        num_lines == Len(lines)
        total == s.lines_cleared + num_lines
        new_level == (s.lines_cleared \div LINES_PER_LEVEL) + 1
        t == [s EXCEPT !.clearing_lines = lines,
                       !.clear_animation_time = 0,
                       !.lines_cleared = total,
                       !.score = @ + line_scores(num_lines) * s.level,
                       !.state = "LineClearing"]
    IN  IF lines = << >> THEN s
        ELSE IF new_level > s.level
        THEN [t EXCEPT !.level = new_level,
                       !.fall_speed = max(MIN_FALL_SPEED,
                           INITIAL_FALL_SPEED - (new_level - 1) * FALL_SPEED_STEP)]
        ELSE t

\* clear_lines without the max(100, ...) around the new fall interval
clear_lines_without_floor(s) ==
    LET lines == lines_to_clear(s.grid, 0)
        num_lines == Len(lines)
        total == s.lines_cleared + num_lines
        new_level == (total \div LINES_PER_LEVEL) + 1
        t == [s EXCEPT !.clearing_lines = lines,
                       !.clear_animation_time = 0,
                       !.lines_cleared = total,
                       !.score = @ + line_scores(num_lines) * s.level,
                       !.state = "LineClearing"]
    IN  IF lines = << >> THEN s
        ELSE IF new_level > s.level
        THEN [t EXCEPT !.level = new_level,
                       !.fall_speed = INITIAL_FALL_SPEED - (new_level - 1) * FALL_SPEED_STEP]
        ELSE t

\* clear_lines with a fall interval that grows with the level
clear_lines_slowing_down(s) ==
    LET lines == lines_to_clear(s.grid, 0)
        num_lines == Len(lines)
        total == s.lines_cleared + num_lines
        new_level == (total \div LINES_PER_LEVEL) + 1
        t == [s EXCEPT !.clearing_lines = lines,
                       !.clear_animation_time = 0,
                       !.lines_cleared = total,
                       !.score = @ + line_scores(num_lines) * s.level,
                       !.state = "LineClearing"]
    IN  IF lines = << >> THEN s
        ELSE IF new_level > s.level
        THEN [t EXCEPT !.level = new_level,
                       !.fall_speed = INITIAL_FALL_SPEED + (new_level - 1) * FALL_SPEED_STEP]
        ELSE t

\* clear_lines without its `self.clear_animation_time = 0`
clear_lines_keeping_timer(s) ==
    LET lines == lines_to_clear(s.grid, 0)
        num_lines == Len(lines)
        total == s.lines_cleared + num_lines
        new_level == (total \div LINES_PER_LEVEL) + 1
        t == [s EXCEPT !.clearing_lines = lines,
                       !.lines_cleared = total,
                       !.score = @ + line_scores(num_lines) * s.level,
                       !.state = "LineClearing"]
    IN  IF lines = << >> THEN s
        ELSE IF new_level > s.level
        THEN [t EXCEPT !.level = new_level,
                       !.fall_speed = max(MIN_FALL_SPEED,
                           INITIAL_FALL_SPEED - (new_level - 1) * FALL_SPEED_STEP)]
        ELSE t

\* TetrisGame.clear_lines
clear_lines(s) ==
    LET lines == lines_to_clear(s.grid, 0)
        num_lines == Len(lines)
        total == s.lines_cleared + num_lines
        new_level == (total \div LINES_PER_LEVEL) + 1
        t == [s EXCEPT !.clearing_lines = lines,
                       !.clear_animation_time = 0,
                       !.lines_cleared = total,
                       !.score = @ + line_scores(num_lines) * s.level,
                       !.state = "LineClearing"]
    IN  IF lines = << >> THEN s
        ELSE IF new_level > s.level
        THEN [t EXCEPT !.level = new_level,
                       !.fall_speed = max(MIN_FALL_SPEED,
                           INITIAL_FALL_SPEED - (new_level - 1) * FALL_SPEED_STEP)]
        ELSE t

\* lock_piece ending the game when a block of the piece is above the board
lock_piece_topping_out(s, k) ==
    LET t == clear_lines([s EXCEPT !.grid = lock_cells(s.grid, get_blocks(s.current_piece),
                                                      s.current_piece.color, 1)])
    IN  IF \E i \in 1..Len(get_blocks(s.current_piece)) :
               get_blocks(s.current_piece)[i][2] < 0
        THEN [t EXCEPT !.game_over = TRUE, !.state = "GameOver"]
        ELSE IF t.clearing_lines = << >> THEN spawn_new_piece(t, k) ELSE t

\* TetrisGame.lock_piece; k is the kind the spawn draws
lock_piece(s, k) ==
    LET t == clear_lines([s EXCEPT !.grid = lock_cells(s.grid, get_blocks(s.current_piece),
                                                      s.current_piece.color, 1)])
    IN  IF t.clearing_lines = << >> THEN spawn_new_piece(t, k) ELSE t

\* hard_drop paying one point per cell dropped
hard_drop_paying_one_per_cell(s, k) ==
    LET d == drop_distance(s.grid, s.current_piece)
    IN  lock_piece([s EXCEPT !.current_piece.y = @ + d,
                             !.score = @ + d], k)

\* TetrisGame.hard_drop
hard_drop(s, k) ==
    LET d == drop_distance(s.grid, s.current_piece)
    IN  lock_piece([s EXCEPT !.current_piece.y = @ + d,
                             !.score = @ + d * HARD_DROP_BONUS], k)

\* del g[y]; g.insert(0, [None] * GRID_WIDTH)
delete_and_insert(g, y) == <<EmptyRow>> \o SubSeq(g, 1, y) \o SubSeq(g, y + 2, Len(g))

\* the loop of finish_clearing_animation: for y in reversed(lines), from
\* the i-th line of `lines` down to the first
RECURSIVE remove_lines(_, _, _)
remove_lines(g, lines, i) ==
    IF i = 0 THEN g
    ELSE remove_lines(delete_and_insert(g, lines[i]), lines, i - 1)

\* finish_clearing_animation without its `self.clearing_lines = []`
finish_clearing_animation_keeping_lines(s, k) ==
    IF s.clearing_lines # << >>
    THEN spawn_new_piece(
             [s EXCEPT !.grid = remove_lines(s.grid, s.clearing_lines,
                                             Len(s.clearing_lines))], k)
    ELSE s

\* TetrisGame.finish_clearing_animation
finish_clearing_animation(s, k) ==
    IF s.clearing_lines # << >>
    THEN spawn_new_piece(
             [s EXCEPT !.grid = remove_lines(s.grid, s.clearing_lines,
                                             Len(s.clearing_lines)),
                       !.clearing_lines = << >>], k)
    ELSE s

\* hold_current_piece without its final `self.can_hold = False`
hold_current_piece_reusable(s, k) ==
    IF ~s.can_hold THEN s
    ELSE IF s.hold_piece = NoPiece
    THEN spawn_new_piece([s EXCEPT !.hold_piece = Tetromino(s.current_piece.type)], k)
    ELSE [s EXCEPT !.current_piece = Tetromino(s.hold_piece.type),
                   !.hold_piece = Tetromino(s.current_piece.type)]

\* hold_current_piece without its `if not self.can_hold: return`
hold_current_piece_unguarded(s, k) ==
    IF s.hold_piece = NoPiece
    THEN [spawn_new_piece([s EXCEPT !.hold_piece = Tetromino(s.current_piece.type)], k)
             EXCEPT !.can_hold = FALSE]
    ELSE [s EXCEPT !.current_piece = Tetromino(s.hold_piece.type),
                   !.hold_piece = Tetromino(s.current_piece.type),
                   !.can_hold = FALSE]

\* hold_current_piece storing and restoring the piece objects themselves,
\* with the rotation and the position they had
hold_current_piece_keeping_rotation(s, k) ==
    IF ~s.can_hold THEN s
    ELSE IF s.hold_piece = NoPiece
    THEN [spawn_new_piece([s EXCEPT !.hold_piece = s.current_piece], k)
             EXCEPT !.can_hold = FALSE]
    ELSE [s EXCEPT !.current_piece = s.hold_piece,
                   !.hold_piece = s.current_piece,
                   !.can_hold = FALSE]

\* TetrisGame.hold_current_piece
hold_current_piece(s, k) ==
    IF ~s.can_hold THEN s
    ELSE IF s.hold_piece = NoPiece
    THEN [spawn_new_piece([s EXCEPT !.hold_piece = Tetromino(s.current_piece.type)], k)
             EXCEPT !.can_hold = FALSE]
    ELSE [s EXCEPT !.current_piece = Tetromino(s.hold_piece.type),
                   !.hold_piece = Tetromino(s.current_piece.type),
                   !.can_hold = FALSE]

\* reset_game without its `self.hold_piece = None`
reset_game_keeping_hold(s, k1, k2) ==
    spawn_new_piece(
        [s EXCEPT !.grid = EmptyGrid, !.score = 0, !.level = 1,
                  !.lines_cleared = 0, !.game_over = FALSE,
                  !.fall_speed = INITIAL_FALL_SPEED, !.clearing_lines = << >>,
                  !.clear_animation_time = 0, !.next_piece = Tetromino(k1),
                  !.can_hold = TRUE, !.state = "Playing"], k2)

\* TetrisGame.reset_game; k1 and k2 are the kinds of the two random pieces
reset_game(s, k1, k2) ==
    spawn_new_piece(
        [s EXCEPT !.grid = EmptyGrid, !.score = 0, !.level = 1,
                  !.lines_cleared = 0, !.game_over = FALSE,
                  !.fall_speed = INITIAL_FALL_SPEED, !.clearing_lines = << >>,
                  !.clear_animation_time = 0, !.next_piece = Tetromino(k1),
                  !.hold_piece = NoPiece, !.can_hold = TRUE,
                  !.state = "Playing"], k2)

(***************************************************************************)
(* The state classes.  handle_input(s, key, ...) is TetrisGame.handle_input*)
(* for a KEYDOWN event, dispatched on the current state; update(s, dt, k)  *)
(* is TetrisGame.update.                                                   *)
(***************************************************************************)
Keys == {"LEFT", "RIGHT", "DOWN", "UP", "SPACE", "c", "g", "p", "r"}

\* PlayingState.handle_input paying the soft-drop bonus whether or not the
\* piece moved
Playing_handle_input_paying_every_soft_drop(s, key, k) ==
    CASE key = "LEFT"  -> move_piece(s, -1, 0)
      [] key = "RIGHT" -> move_piece(s, 1, 0)
      [] key = "DOWN"  -> [move_piece(s, 0, 1) EXCEPT !.score = @ + SOFT_DROP_BONUS]
      [] key = "UP"    -> rotate_piece(s)
      [] key = "SPACE" -> hard_drop(s, k)
      [] key = "c"     -> hold_current_piece(s, k)
      [] key = "g"     -> [s EXCEPT !.show_ghost = ~@]
      [] key = "p"     -> [s EXCEPT !.state = "Paused"]
      [] OTHER         -> s

\* PlayingState.handle_input in which a soft drop that cannot move the piece
\* locks it, as the auto-fall does
Playing_handle_input_locking_soft_drop(s, key, k) ==
    CASE key = "LEFT"  -> move_piece(s, -1, 0)
      [] key = "RIGHT" -> move_piece(s, 1, 0)
      [] key = "DOWN"  -> IF move_ok(s, 0, 1)
                          THEN [move_piece(s, 0, 1) EXCEPT !.score = @ + SOFT_DROP_BONUS]
                          ELSE lock_piece(s, k)
      [] key = "UP"    -> rotate_piece(s)
      [] key = "SPACE" -> hard_drop(s, k)
      [] key = "c"     -> hold_current_piece(s, k)
      [] key = "g"     -> [s EXCEPT !.show_ghost = ~@]
      [] key = "p"     -> [s EXCEPT !.state = "Paused"]
      [] OTHER         -> s

\* PlayingState.handle_input
Playing_handle_input(s, key, k) ==
    CASE key = "LEFT"  -> move_piece(s, -1, 0)
      [] key = "RIGHT" -> move_piece(s, 1, 0)
      [] key = "DOWN"  -> IF move_ok(s, 0, 1)
                          THEN [move_piece(s, 0, 1) EXCEPT !.score = @ + SOFT_DROP_BONUS]
                          ELSE s
      [] key = "UP"    -> rotate_piece(s)
      [] key = "SPACE" -> hard_drop(s, k)
      [] key = "c"     -> hold_current_piece(s, k)
      [] key = "g"     -> [s EXCEPT !.show_ghost = ~@]
      [] key = "p"     -> [s EXCEPT !.state = "Paused"]
      [] OTHER         -> s

\* PausedState.handle_input that lets the move keys through
Paused_handle_input_moving(s, key) ==
    CASE key = "p"     -> [s EXCEPT !.state = "Playing"]
      [] key = "LEFT"  -> move_piece(s, -1, 0)
      [] key = "RIGHT" -> move_piece(s, 1, 0)
      [] OTHER         -> s

\* PausedState.handle_input
Paused_handle_input(s, key) ==
    IF key = "p" THEN [s EXCEPT !.state = "Playing"] ELSE s

\* LineClearingState.handle_input in which the pause key skips the animation
LineClearing_handle_input_skipping(s, key) ==
    IF key = "p" THEN [s EXCEPT !.state = "Playing"] ELSE s

\* LineClearingState.handle_input
LineClearing_handle_input(s, key) == s

\* GameOverState.handle_input in which the pause key resumes play without
\* the reset
GameOver_handle_input_resuming(s, key, k1, k2) ==
    CASE key = "r" -> [reset_game(s, k1, k2) EXCEPT !.state = "Playing"]
      [] key = "p" -> [s EXCEPT !.state = "Playing"]
      [] OTHER     -> s

\* GameOverState.handle_input
GameOver_handle_input(s, key, k1, k2) ==
    IF key = "r" THEN [reset_game(s, k1, k2) EXCEPT !.state = "Playing"] ELSE s

\* TetrisGame.handle_input, for a KEYDOWN event
handle_input(s, key, k1, k2) ==
    CASE s.state = "Playing"      -> Playing_handle_input(s, key, k1)
      [] s.state = "Paused"       -> Paused_handle_input(s, key)
      [] s.state = "LineClearing" -> LineClearing_handle_input(s, key)
      [] s.state = "GameOver"     -> GameOver_handle_input(s, key, k1, k2)

\* PlayingState.update
Playing_update(s, delta_time, k) ==
    LET t == [s EXCEPT !.fall_time = @ + delta_time]
    IN  IF t.fall_time >= t.fall_speed
        THEN LET u == [t EXCEPT !.fall_time = 0]
             IN  IF move_ok(u, 0, 1) THEN move_piece(u, 0, 1) ELSE lock_piece(u, k)
        ELSE t

\* LineClearingState.update
LineClearing_update(s, delta_time, k) ==
    LET t == [s EXCEPT !.clear_animation_time = @ + delta_time]
    IN  IF t.clear_animation_time >= CLEAR_ANIMATION_DURATION
        THEN [finish_clearing_animation(t, k) EXCEPT !.state = "Playing"]
        ELSE t

\* TetrisGame.update
update(s, delta_time, k) ==
    IF s.game_over THEN s
    ELSE CASE s.state = "Playing"      -> Playing_update(s, delta_time, k)
           [] s.state = "LineClearing" -> LineClearing_update(s, delta_time, k)
           [] OTHER                    -> s

(***************************************************************************)
(* The state machine.                                                      *)
(***************************************************************************)
\* TetrisGame.__init__
Init ==
    \E k1 \in PlayKinds, k2 \in PlayKinds :
        /\ grid = EmptyGrid
        /\ current_piece = Tetromino(k1)
        /\ next_piece = Tetromino(k2)
        /\ hold_piece = NoPiece
        /\ can_hold = TRUE
        /\ score = 0
        /\ level = 1
        /\ lines_cleared = 0
        /\ game_over = FALSE
        /\ fall_time = 0
        /\ fall_speed = INITIAL_FALL_SPEED
        /\ clearing_lines = << >>
        /\ clear_animation_time = 0
        /\ show_ghost = TRUE
        /\ state = "Playing"

\* the number of occupied cells of the grid g
RECURSIVE occupied(_, _)
occupied(g, i) ==
    IF i = 0 THEN 0
    ELSE Cardinality({x \in 1..Len(g[i]) : g[i][x] # None}) + occupied(g, i - 1)

\* the part of a game the model explores: the cells locked since the last
\* reset (those on the grid and those of the rows cleared and removed) are
\* those of at most MaxPieces pieces; at most MaxDropScore points have come
\* from drops (the points of line clears are multiples of 100); the ghost
\* toggle, the pause and the ticks shorter than the fall interval are
\* explored on the first piece of a game
Explored ==
    /\ occupied(grid, Len(grid))
          + GRID_WIDTH * (lines_cleared - Len(clearing_lines)) <= 4 * MaxPieces
    /\ score % 100 <= MaxDropScore
    /\ (show_ghost = FALSE \/ state = "Paused" \/ fall_time # 0)
           => (grid = EmptyGrid /\ lines_cleared = 0)

\* the kinds a random draw is taken from; one value when the handler makes
\* no draw
Draw(needed) == IF needed THEN PlayKinds ELSE {CHOOSE k \in PlayKinds : TRUE}

\* one KEYDOWN event of the run loop
KeyDown ==
    \E key \in Keys :
        \E k1 \in Draw(\/ state = "Playing" /\ key \in {"SPACE", "c"}
                       \/ state = "GameOver" /\ key = "r"),
           k2 \in Draw(state = "GameOver" /\ key = "r") :
            \E s \in {handle_input(Session, key, k1, k2)} : Becomes(s)

\* one update(delta_time) call of the run loop, and the draw() after it
Tick ==
    \E delta_time \in Deltas :
        \E k \in Draw(~game_over /\ state \in {"Playing", "LineClearing"}) :
            \E s \in {draw_grid(update(Session, delta_time, k))} : Becomes(s)

Next == (KeyDown \/ Tick) /\ Explored'

Spec == Init /\ [][Next]_vars

(***************************************************************************)
(* Helpers of the properties below.                                        *)
(***************************************************************************)
\* the fields of the session other than the state tag
OtherThanState ==
    <<grid, current_piece, next_piece, hold_piece, can_hold, score, level,
      lines_cleared, game_over, fall_time, fall_speed, clearing_lines,
      clear_animation_time, show_ghost>>

\* the fields of the session other than the animation timer
OtherThanAnimationTime ==
    <<grid, current_piece, next_piece, hold_piece, can_hold, score, level,
      lines_cleared, game_over, fall_time, fall_speed, clearing_lines,
      show_ghost, state>>

\* the grid cells (x, y) the piece p covers, shifted by (dx, dy)
CoveredCells(p, dx, dy) ==
    {<<p.x + cx - 1 + dx, p.y + cy - 1 + dy>> :
        <<cx, cy>> \in {c \in (1..Len(p.shape[1])) \X (1..Len(p.shape)) :
                            p.shape[c[2]][c[1]] = 1}}

\* the elements of the sequence q
Range(q) == {q[i] : i \in 1..Len(q)}

\* the rows of g from the i-th on whose 0-based index is not in R
RECURSIVE KeptRows(_, _, _)
KeptRows(g, R, i) ==
    IF i > Len(g) THEN << >>
    ELSE IF (i - 1) \in R THEN KeptRows(g, R, i + 1)
    ELSE <<g[i]>> \o KeptRows(g, R, i + 1)

\* the board g with the rows of R deleted and as many empty rows on top
WithoutRows(g, R) == Repeat(EmptyRow, Cardinality(R)) \o KeptRows(g, R, 1)

\* a step in which the line-clear animation ends
AnimationEnds == state = "LineClearing" /\ state' # "LineClearing"

(***************************************************************************)
(* C1                                                                      *)
(***************************************************************************)
\* C1: when the line-clear animation ends with clearing rows R, the board
\* afterwards is the board before with exactly the rows of R deleted, |R|
\* empty rows inserted at the top and every other row kept in order.
C1_RemovesExactlyClearingRows ==
    [][AnimationEnds => grid' = WithoutRows(grid, Range(clearing_lines))]_vars

(***************************************************************************)
(* C2                                                                      *)
(***************************************************************************)
\* a step in which spawn_new_piece ran: the end of the animation, a lock
\* that completed no row, a hold into the empty slot, a reset
SpawnStep ==
    \/ AnimationEnds
    \/ state = "Playing" /\ grid' # grid /\ clearing_lines' = << >>
    \/ state = "Playing" /\ hold_piece = NoPiece /\ hold_piece' # NoPiece
    \/ state = "GameOver" /\ state' # "GameOver"

\* C2: whenever a spawn produces a current piece with no valid placement at
\* its spawn position, the state machine is in GameOver once the operation
\* that triggered the spawn has finished.
C2_InvalidSpawnIsGameOver ==
    [][(SpawnStep /\ ~is_valid_position(grid', current_piece', 0, 0))
          => state' = "GameOver"]_vars

(***************************************************************************)
(* C3                                                                      *)
(***************************************************************************)
\* C3: from every reachable LineClearing state, a tick that brings the
\* animation timer to the animation duration removes the clearing rows,
\* spawns the next piece and leaves LineClearing.
C3_AnimationCompletes ==
    state = "LineClearing" =>
        \A k \in PlayKinds :
            LET after == update(Session,
                                CLEAR_ANIMATION_DURATION - clear_animation_time, k)
            IN  /\ after.state # "LineClearing"
                /\ after.clearing_lines = << >>
                /\ after.current_piece = next_piece

(***************************************************************************)
(* C4                                                                      *)
(***************************************************************************)
\* C4: reset_game called in any reachable state leaves the board empty,
\* score 0, level 1, lines_cleared 0, the fall interval 1000 ms, no
\* clearing rows, the hold slot empty, can_hold true, game_over false, the
\* state Playing, and a freshly spawned current piece at a valid placement
\* at its spawn position.
C4_ResetRestoresInitialSession ==
    \A k1 \in PlayKinds, k2 \in PlayKinds :
        LET after == reset_game(Session, k1, k2)
        IN  /\ \A y \in 1..GRID_HEIGHT : \A x \in 1..GRID_WIDTH :
                   after.grid[y][x] = None
            /\ Len(after.grid) = GRID_HEIGHT
            /\ after.score = 0
            /\ after.level = 1
            /\ after.lines_cleared = 0
            /\ after.fall_speed = 1000
            /\ after.clearing_lines = << >>
            /\ after.hold_piece = NoPiece
            /\ after.can_hold = TRUE
            /\ after.game_over = FALSE
            /\ after.state = "Playing"
            /\ after.current_piece = Tetromino(k1)
            /\ is_valid_position(after.grid, after.current_piece, 0, 0)

\* a GameOver state with a score, cleared lines and a held piece, from
\* which Restart resets the session
C4_Witness ==
    /\ state = "GameOver"
    /\ game_over
    /\ score > 0
    /\ lines_cleared > 0
    /\ hold_piece # NoPiece
    /\ grid # EmptyGrid
    /\ \A k \in PlayKinds : handle_input(Session, "r", k, k).state = "Playing"

(***************************************************************************)
(* C5                                                                      *)
(***************************************************************************)
\* C5: in GameOver every input action other than Restart and every tick
\* leave the entire session unchanged, so the only step that changes
\* anything is Restart, which performs the full reset and leaves the state
\* Playing with game_over false.
C5_GameOverOnlyRestarts ==
    [][state = "GameOver" =>
          /\ state' = "Playing"
          /\ game_over' = FALSE
          /\ \E k1 \in PlayKinds, k2 \in PlayKinds :
                 vars' = <<EmptyGrid, Tetromino(k1), Tetromino(k2), NoPiece, TRUE,
                           0, 1, 0, FALSE, fall_time, 1000, << >>, 0, show_ghost,
                           "Playing">>]_vars

\* a GameOver state in which the keys other than Restart and the ticks
\* change nothing while Restart does
C5_Witness ==
    /\ state = "GameOver"
    /\ score > 0
    /\ \A key \in Keys \ {"r"} : \A k \in PlayKinds :
           handle_input(Session, key, k, k) = Session
    /\ \A dt \in Deltas : \A k \in PlayKinds : update(Session, dt, k) = Session
    /\ \A k \in PlayKinds : handle_input(Session, "r", k, k) # Session

(***************************************************************************)
(* C6                                                                      *)
(***************************************************************************)
\* C6: in Paused a tick and every input action other than Pause/Unpause
\* leave the whole session unchanged; Pause in Playing and Unpause in
\* Paused change only the state tag, so the fall timer resumes with the
\* value it had.
C6_PauseFreezesSession ==
    [][(state = "Paused" \/ state' = "Paused") =>
          /\ UNCHANGED OtherThanState
          /\ {state, state'} = {"Playing", "Paused"}]_vars

\* a Paused state that holds a fall timer part-way to the fall interval
C6_Witness ==
    /\ state = "Paused"
    /\ fall_time > 0
    /\ fall_time < fall_speed
    /\ \A dt \in Deltas : \A k \in PlayKinds : update(Session, dt, k) = Session
    /\ handle_input(Session, "p", "I", "I").fall_time = fall_time

(***************************************************************************)
(* C7                                                                      *)
(***************************************************************************)
\* C7: in LineClearing no input action changes anything; the only steps
\* that change the session are ticks, which add their elapsed time to the
\* animation timer, and only a tick that brings the timer to the animation
\* duration changes anything else or leaves LineClearing.
C7_LineClearingIgnoresInput ==
    [][state = "LineClearing" =>
          /\ \E dt \in Deltas : clear_animation_time' = clear_animation_time + dt
          /\ clear_animation_time' < CLEAR_ANIMATION_DURATION
                => UNCHANGED OtherThanAnimationTime]_vars

\* a LineClearing state whose animation is part-way and which no key changes
C7_Witness ==
    /\ state = "LineClearing"
    /\ clear_animation_time > 0
    /\ \A key \in Keys : \A k \in PlayKinds :
           handle_input(Session, key, k, k) = Session

(***************************************************************************)
(* C8                                                                      *)
(***************************************************************************)
\* C8: in every reachable state the set of clearing rows is non-empty if
\* and only if the state machine is in LineClearing.
C8_ClearingRowsIffLineClearing ==
    (clearing_lines # << >>) <=> (state = "LineClearing")

\* a LineClearing state with two clearing rows
C8_Witness == state = "LineClearing" /\ Len(clearing_lines) = 2

(***************************************************************************)
(* C9: is_valid_position as a function of the board, the piece and the     *)
(* offset.  SpecValid draws a board, a piece of any kind in any rotation   *)
(* and any origin around the board, and moves the piece with move_piece.   *)
(***************************************************************************)
\* the boards SpecValid draws: at most one occupied cell
ProbeBoards ==
    {EmptyGrid} \cup
    {[EmptyGrid EXCEPT ![y][x] = COLORS("I")] :
        y \in 1..GRID_HEIGHT, x \in 1..GRID_WIDTH}

\* the offsets SpecValid tries
ProbeOffsets == {-1, 0, 1}

\* SpecValid keeps the origin of the piece at most this many rows above the
\* board (nothing in is_valid_position stops a piece from moving up)
MaxAbove == 2

\* the shape after n clockwise rotations
RECURSIVE Turned(_, _)
Turned(shape, n) == IF n = 0 THEN shape ELSE Turned(rotate_clockwise(shape), n - 1)

InitValid ==
    \E k \in AllKinds, n \in 0..3, x \in (-1)..GRID_WIDTH,
       y \in (-MaxAbove)..GRID_HEIGHT, g \in ProbeBoards :
        /\ grid = g
        /\ current_piece = [Tetromino(k) EXCEPT !.shape = Turned(@, n),
                                                !.x = x, !.y = y]
        /\ next_piece = Tetromino(k)
        /\ hold_piece = NoPiece
        /\ can_hold = TRUE
        /\ score = 0
        /\ level = 1
        /\ lines_cleared = 0
        /\ game_over = FALSE
        /\ fall_time = 0
        /\ fall_speed = INITIAL_FALL_SPEED
        /\ clearing_lines = << >>
        /\ clear_animation_time = 0
        /\ show_ghost = TRUE
        /\ state = "Playing"

\* move_piece(dx, dy)
Probe ==
    \E dx \in ProbeOffsets, dy \in ProbeOffsets :
        \E s \in {move_piece(Session, dx, dy)} :
            s.current_piece.y >= -MaxAbove /\ Becomes(s)

SpecValid == InitValid /\ [][Probe]_vars

\* C9: is_valid_position returns false exactly when some occupied cell of
\* the piece shifted by (dx, dy) has x < 0, or x >= width, or y >= height,
\* or (y >= 0 and the board cell at (x, y) is occupied), and true otherwise.
C9_ValidityCharacterised ==
    \A dx \in ProbeOffsets, dy \in ProbeOffsets :
        is_valid_position(grid, current_piece, dx, dy)
          <=> ~ \E c \in CoveredCells(current_piece, dx, dy) :
                    \/ c[1] < 0
                    \/ c[1] >= GRID_WIDTH
                    \/ c[2] >= GRID_HEIGHT
                    \/ (c[2] >= 0 /\ grid[c[2] + 1][c[1] + 1] # None)

\* a piece partly above the board is valid where it is (its cells above
\* row 0 are not checked against the board), is stopped by the left wall,
\* and is stopped by an occupied cell below it
C9_Witness ==
    /\ \E c \in CoveredCells(current_piece, 0, 0) : c[2] < 0
    /\ is_valid_position(grid, current_piece, 0, 0)
    /\ ~is_valid_position(grid, current_piece, -1, 0)
    /\ \E c \in CoveredCells(current_piece, 0, 1) :
           c[2] >= 0 /\ c[2] < GRID_HEIGHT /\ grid[c[2] + 1][c[1] + 1] # None

(***************************************************************************)
(* C10                                                                     *)
(***************************************************************************)
\* the board g with the colour of the piece p in the cells p covers that
\* have y >= 0, and every other cell as it was
WithPiece(g, p) ==
    [y \in 1..GRID_HEIGHT |->
        [x \in 1..GRID_WIDTH |->
            IF <<x - 1, y - 1>> \in CoveredCells(p, 0, 0) THEN p.color ELSE g[y][x]]]

\* the current piece, d cells further down
Lowered(d) == [current_piece EXCEPT !.y = @ + d]

\* C10: locking a piece writes the piece's colour into exactly the board
\* cells covered by the piece's occupied cells that have y >= 0, drops the
\* occupied cells with y < 0 and changes no other board cell: a step of
\* Playing that changes the board leaves the board with the current piece,
\* at the place where it came to rest, written into it.
C10_LockWritesPieceCells ==
    [][(state = "Playing" /\ grid' # grid) =>
          \E d \in 0..GRID_HEIGHT :
              /\ \A e \in 0..d : e < d <=> is_valid_position(grid, current_piece, 0, e + 1)
              /\ grid' = WithPiece(grid, Lowered(d))]_vars

\* a state right after a lock (the locked piece is still the current piece
\* while its rows are clearing) in which the piece's cells are on the board
C10_Witness ==
    /\ state = "LineClearing"
    /\ clear_animation_time = 0
    /\ \A c \in CoveredCells(current_piece, 0, 0) :
           c[2] >= 0 /\ grid[c[2] + 1][c[1] + 1] = current_piece.color
    /\ \E y \in 1..GRID_HEIGHT : \E x \in 1..GRID_WIDTH :
           /\ <<x - 1, y - 1>> \notin CoveredCells(current_piece, 0, 0)
           /\ grid[y][x] # None

(***************************************************************************)
(* C11, C12: clear_lines as a function of the board, the level and the     *)
(* line count.  SpecClear draws a board row by row and a session that has  *)
(* cleared some lines one at a time, and calls clear_lines on it.          *)
(***************************************************************************)
\* the rows the boards of SpecClear are made of: empty, complete, and
\* complete but for the first or the last cell
ClearRows ==
    {EmptyRow,
     Repeat(COLORS("I"), GRID_WIDTH),
     <<None>> \o Repeat(COLORS("O"), GRID_WIDTH - 1),
     Repeat(COLORS("T"), GRID_WIDTH - 1) \o <<None>>}

\* the boards of SpecClear
ClearBoards == [1..GRID_HEIGHT -> ClearRows]

\* the numbers of lines the sessions of SpecClear have cleared before
ClearCounts == {0, 8, 9, 19, 99}

\* the score of a session that has cleared n lines one at a time, with no
\* points from drops
RECURSIVE ScoreOfSingles(_)
ScoreOfSingles(n) ==
    IF n = 0 THEN 0
    ELSE ScoreOfSingles(n - 1) + 100 * (((n - 1) \div 10) + 1)

InitClear ==
    \E g \in ClearBoards, n \in ClearCounts, k \in PlayKinds :
        /\ grid = g
        /\ current_piece = Tetromino(k)
        /\ next_piece = Tetromino(k)
        /\ hold_piece = NoPiece
        /\ can_hold = TRUE
        /\ score = ScoreOfSingles(n)
        /\ level = (n \div 10) + 1
        /\ lines_cleared = n
        /\ game_over = FALSE
        /\ fall_time = 0
        /\ fall_speed = max(100, 1000 - (n \div 10) * 100)
        /\ clearing_lines = << >>
        /\ clear_animation_time = 0
        /\ show_ghost = TRUE
        /\ state = "Playing"

\* clear_lines(), as lock_piece calls it in Playing
Detect ==
    /\ state = "Playing"
    /\ \E s \in {clear_lines(Session)} : Becomes(s)

SpecClear == InitClear /\ [][Detect]_vars

\* the 0-based indices of the rows of g in which every column is non-empty
FullRows(g) ==
    {y \in 0..(GRID_HEIGHT - 1) : \A x \in 1..GRID_WIDTH : g[y + 1][x] # None}

\* q lists the elements of the set S of integers in ascending order
Ascending(q, S) ==
    /\ Len(q) = Cardinality(S)
    /\ Range(q) = S
    /\ \A i \in 1..(Len(q) - 1) : q[i] < q[i + 1]

(***************************************************************************)
(* C11                                                                     *)
(***************************************************************************)
\* C11: full-row detection returns exactly the indices of the rows in which
\* every column is non-empty, in ascending order, for every board; when no
\* row is full it leaves score, level, lines_cleared, the clearing rows and
\* the state as they were.
C11_DetectsExactlyFullRows ==
    state = "Playing" =>
        LET after == clear_lines(Session)
        IN  /\ Ascending(lines_to_clear(grid, 0), FullRows(grid))
            /\ FullRows(grid) # {} => Ascending(after.clearing_lines, FullRows(grid))
            /\ FullRows(grid) = {} => after = Session

\* after a detection on a board whose complete rows are not adjacent and
\* have a row with a gap between them
C11_Witness ==
    /\ state = "LineClearing"
    /\ Len(clearing_lines) = 2
    /\ clearing_lines[2] > clearing_lines[1] + 1
    /\ FullRows(grid) = Range(clearing_lines)
    /\ \E y \in 1..GRID_HEIGHT : grid[y] \notin {EmptyRow, grid[clearing_lines[1] + 1]}

(***************************************************************************)
(* C12                                                                     *)
(***************************************************************************)
\* C12: when n full rows are detected while the level is L (the level
\* before this clear is counted), the score increases by exactly
\* base[n] * L with base = 100, 300, 500, 800 for n = 1, 2, 3, 4, and by 0
\* for any other n; lines_cleared increases by n in the same step.
C12_ScoreIsBaseTimesLevel ==
    state = "Playing" =>
        LET n == Cardinality(FullRows(grid))
            base == IF n \in 1..4 THEN <<100, 300, 500, 800>>[n] ELSE 0
            after == clear_lines(Session)
        IN  /\ after.score = score + base * level
            /\ after.lines_cleared = lines_cleared + n

\* after a two-row clear that took the session from 9 to 11 lines: it was
\* paid at level 1 although the level is now 2
C12_Witness ==
    /\ state = "LineClearing"
    /\ Len(clearing_lines) = 2
    /\ lines_cleared = 11
    /\ level = 2
    /\ score = ScoreOfSingles(9) + 300

(***************************************************************************)
(* C13, C14, C15: long games.  SpecLong is the program from its initial    *)
(* state, followed through the games in which every piece drawn is an I    *)
(* piece and at most one piece lies on the board: on a board four wide a   *)
(* flat I piece clears a row, so these games reach every level.            *)
(***************************************************************************)
\* a game of SpecLong is explored until it has cleared this many lines
MaxLines == 101
\* the hold and the points from drops are explored until a game of SpecLong
\* has cleared this many lines
MaxSideLines == 21

\* the part of a game SpecLong explores
ExploredLong ==
    /\ current_piece.type = "I"
    /\ next_piece.type = "I"
    /\ occupied(grid, Len(grid)) <= 4
    /\ lines_cleared <= MaxLines
    /\ score % 100 <= MaxDropScore
    /\ (hold_piece # NoPiece \/ score % 100 # 0) => lines_cleared <= MaxSideLines
    /\ show_ghost
    /\ state # "Paused"
    /\ fall_time = 0

NextLong == (KeyDown \/ Tick) /\ ExploredLong'

SpecLong == Init /\ [][NextLong]_vars

(***************************************************************************)
(* C13                                                                     *)
(***************************************************************************)
\* C13: in every reachable state level = lines_cleared div 10 + 1.
C13_LevelFollowsLines == level = (lines_cleared \div 10) + 1

\* the state in which the tenth line has just been counted
C13_Witness ==
    /\ state = "LineClearing"
    /\ clear_animation_time = 0
    /\ lines_cleared = 10
    /\ level = 2

(***************************************************************************)
(* C14                                                                     *)
(***************************************************************************)
\* C14: in every reachable state the fall interval is
\* max(100, 1000 - (level - 1) * 100) ms, and so never below 100 ms.
C14_FallIntervalFollowsLevel ==
    /\ fall_speed = (IF 1000 - (level - 1) * 100 > 100
                     THEN 1000 - (level - 1) * 100 ELSE 100)
    /\ fall_speed >= 100

\* a state at level 11, where 1000 - (level - 1) * 100 is 0 and the floor
\* of 100 ms is what the fall interval is
C14_Witness ==
    /\ level = 11
    /\ fall_speed = 100
    /\ state = "Playing"

(***************************************************************************)
(* C15                                                                     *)
(***************************************************************************)
\* C15: between two resets no input action and no tick decreases score,
\* level or lines_cleared, and none increases the fall interval; score
\* stays a non-negative integer.  (The only step that is a reset is the one
\* that leaves GameOver.)
C15_ProgressIsMonotonic ==
    [][state # "GameOver" =>
          /\ score' >= score
          /\ level' >= level
          /\ lines_cleared' >= lines_cleared
          /\ fall_speed' <= fall_speed
          /\ score' \in Nat]_vars

\* a state whose score has points from a drop and from clears at two
\* levels, and whose fall interval has come down with the level
C15_Witness ==
    /\ level = 3
    /\ fall_speed = 800
    /\ score % 100 > 0
    /\ score > ScoreOfSingles(20)
    /\ lines_cleared > 20

(***************************************************************************)
(* C16                                                                     *)
(***************************************************************************)
\* the session after the key `key` in the current state, the random draws
\* giving the kind k
AfterKey(key, k) == handle_input(Session, key, k, k)

\* C16: Hold in Playing with can_hold true and an empty hold slot: the hold
\* slot afterwards contains the kind of the piece that was current, the
\* current piece is the piece that was next, a new next piece is generated,
\* the board and the score are unchanged, and can_hold is false.
C16_HoldIntoEmptySlot ==
    (state = "Playing" /\ can_hold /\ hold_piece = NoPiece) =>
        \A k \in PlayKinds :
            LET after == AfterKey("c", k)
            IN  /\ after.hold_piece # NoPiece
                /\ after.hold_piece.type = current_piece.type
                /\ after.current_piece = next_piece
                /\ after.next_piece.type = k
                /\ after.grid = grid
                /\ after.score = score
                /\ after.can_hold = FALSE

\* after the first hold of a game, made once a piece had been locked: the
\* held kind is the one that was current, and holding is disabled
C16_Witness ==
    /\ state = "Playing"
    /\ ~game_over
    /\ ~can_hold
    /\ hold_piece = Tetromino("I")
    /\ current_piece = Tetromino("O")
    /\ occupied(grid, Len(grid)) = 4
    /\ lines_cleared = 0

(***************************************************************************)
(* C17                                                                     *)
(***************************************************************************)
\* a step of Playing in which the current piece, d cells further down and
\* resting there, is written into the board (a piece resting wholly above
\* the board leaves the board as it was)
LockStep ==
    /\ state = "Playing"
    /\ \E d \in 0..GRID_HEIGHT :
           /\ ~is_valid_position(grid, Lowered(d), 0, 1)
           /\ grid' = WithPiece(grid, Lowered(d))

\* C17: at most one hold takes effect per spawned piece: while can_hold is
\* false a Hold action leaves the entire session unchanged, and can_hold
\* becomes true again only when the next piece is spawned after a lock
\* (directly, or at the end of the line-clear animation) or on the reset.
C17_OneHoldPerPiece ==
    [][/\ (state = "Playing" /\ ~can_hold) =>
              \A k \in PlayKinds : AfterKey("c", k) = Session
       /\ (~can_hold /\ can_hold') =>
              \/ LockStep /\ current_piece' = next_piece
              \/ AnimationEnds /\ current_piece' = next_piece
              \/ state = "GameOver" /\ state' = "Playing"]_vars

\* a piece that has been held into an occupied slot and moved since: a
\* further Hold does nothing
C17_Witness ==
    /\ state = "Playing"
    /\ ~can_hold
    /\ hold_piece # NoPiece
    /\ grid # EmptyGrid
    /\ current_piece # Tetromino(current_piece.type)
    /\ \A k \in PlayKinds : AfterKey("c", k) = Session

(***************************************************************************)
(* C18                                                                     *)
(***************************************************************************)
\* C18: Hold in Playing with can_hold true and an occupied hold slot: the
\* current piece becomes a fresh piece of the held kind in its default
\* orientation at the spawn origin, the hold slot receives the kind of the
\* former current piece, the next piece, the board and the score are
\* unchanged, and can_hold is false.
C18_HoldSwapsKinds ==
    (state = "Playing" /\ can_hold /\ hold_piece # NoPiece) =>
        \A k \in PlayKinds :
            LET after == AfterKey("c", k)
                held == hold_piece.type
            IN  /\ after.current_piece.type = held
                /\ after.current_piece.shape = SHAPES(held)
                /\ after.current_piece.x
                     = (GRID_WIDTH \div 2) - (Len(SHAPES(held)[1]) \div 2)
                /\ after.current_piece.y = 0
                /\ after.hold_piece.type = current_piece.type
                /\ after.next_piece = next_piece
                /\ after.grid = grid
                /\ after.score = score
                /\ after.can_hold = FALSE

\* a turned and lowered I piece that Hold swaps with the held O piece
C18_Witness ==
    /\ state = "Playing"
    /\ can_hold
    /\ hold_piece = Tetromino("O")
    /\ current_piece.type = "I"
    /\ current_piece.shape # SHAPES("I")
    /\ current_piece.y > 0
    /\ AfterKey("c", "I").current_piece = Tetromino("O")
    /\ AfterKey("c", "I").hold_piece = Tetromino("I")

(***************************************************************************)
(* C19: rotate_piece for every kind, rotation and origin.  SpecTurn is     *)
(* SpecValid with the rotation as a second action.                         *)
(***************************************************************************)
\* rotate_piece()
Turn ==
    \E s \in {rotate_piece(Session)} :
        s.current_piece.y >= -MaxAbove /\ Becomes(s)

SpecTurn == InitValid /\ [][Probe \/ Turn]_vars

\* the current piece turned clockwise, where it is
TurnedPiece == [current_piece EXCEPT !.shape = rotate_clockwise(@)]

\* the offsets rotate_piece is said to try, in order
KickOrder == << <<0, 0>>, <<-1, 0>>, <<1, 0>>, <<0, -1>>, <<-1, -1>>, <<1, -1>> >>

\* the places in KickOrder of the offsets at which the turned piece is at
\* a valid placement
ValidKicks ==
    {i \in 1..Len(KickOrder) :
        is_valid_position(grid, TurnedPiece, KickOrder[i][1], KickOrder[i][2])}

\* C19: Rotate in Playing applies the clockwise rotation and then the first
\* of the offsets (0,0), (-1,0), (1,0), (0,-1), (-1,-1), (1,-1) for which
\* the rotated piece is at a valid placement, shifting the origin by it; if
\* no offset is valid the piece's matrix and origin are what they were.  In
\* both cases the board, the score and the rest of the session are unchanged.
C19_RotateTakesFirstValidKick ==
    state = "Playing" =>
        LET after == AfterKey("UP", "I")
        IN  /\ after = [Session EXCEPT !.current_piece = after.current_piece]
            /\ ValidKicks = {} => after.current_piece = current_piece
            /\ ValidKicks # {} =>
                 LET i == CHOOSE j \in ValidKicks : \A m \in ValidKicks : j <= m
                 IN  after.current_piece =
                         [TurnedPiece EXCEPT !.x = @ + KickOrder[i][1],
                                             !.y = @ + KickOrder[i][2]]

\* a piece whose rotation is valid only at the last offset, (1, -1), and
\* which rotate_piece moves there
C19_Witness ==
    /\ ValidKicks = {6}
    /\ is_valid_position(grid, current_piece, 0, 0)
    /\ AfterKey("UP", "I").current_piece.x = current_piece.x + 1
    /\ AfterKey("UP", "I").current_piece.y = current_piece.y - 1
    /\ AfterKey("UP", "I").current_piece.shape # current_piece.shape

(***************************************************************************)
(* C20                                                                     *)
(***************************************************************************)
\* the largest number of successive one-cell down-moves of the current
\* piece that are valid
DropCells ==
    CHOOSE d \in 0..GRID_HEIGHT :
        /\ \A e \in 1..d : is_valid_position(grid, current_piece, 0, e)
        /\ ~is_valid_position(grid, current_piece, 0, d + 1)

\* C20: Hard drop in Playing moves the piece straight down by d cells,
\* where d is the largest number of successive one-cell down-moves that are
\* valid (the position the ghost placement reports), adds exactly 2 * d to
\* the score (the points of the rows the lock completes come on top of
\* that), and locks the piece at that position within the same action.
C20_HardDropLocksAtGhost ==
    state = "Playing" =>
        \A k \in PlayKinds :
            LET after == AfterKey("SPACE", k)
                locked == WithPiece(grid, Lowered(DropCells))
                n == Cardinality(FullRows(locked))
            IN  /\ get_ghost_piece(Session).y = current_piece.y + DropCells
                /\ get_ghost_piece(Session).x = current_piece.x
                /\ after.grid = locked
                /\ after.score = score + 2 * DropCells + line_scores(n) * level
                /\ n = 0 => after.current_piece = next_piece
                /\ n > 0 => /\ after.current_piece = Lowered(DropCells)
                            /\ after.state = "LineClearing"

\* a piece three cells above its resting place, where it completes a row:
\* the hard drop pays 6 points for the drop and 100 for the row
C20_Witness ==
    /\ state = "Playing"
    /\ ~game_over
    /\ DropCells = 3
    /\ AfterKey("SPACE", "I").state = "LineClearing"
    /\ AfterKey("SPACE", "I").score = score + 6 + 100
    /\ AfterKey("SPACE", "I").current_piece.y = current_piece.y + 3

(***************************************************************************)
(* C21                                                                     *)
(***************************************************************************)
\* the piece p, shifted by (dx, dy), is at a valid placement on the board
Fits(p, dx, dy) ==
    \A c \in CoveredCells(p, dx, dy) :
        /\ c[1] >= 0
        /\ c[1] < GRID_WIDTH
        /\ c[2] < GRID_HEIGHT
        /\ c[2] >= 0 => grid[c[2] + 1][c[1] + 1] = None

\* the keys that move the piece by one cell, and the cell they move it by
MoveKeys == {<<"LEFT", -1, 0>>, <<"RIGHT", 1, 0>>, <<"DOWN", 0, 1>>}

\* C21: move-left, move-right and soft-drop in Playing: when the one-cell
\* target placement is valid, the origin shifts by exactly that cell (and
\* soft drop adds exactly 1 to the score) and nothing else changes; when it
\* is invalid, nothing in the session changes: no bonus and no lock.
C21_MovesShiftOneCellOrNothing ==
    state = "Playing" =>
        \A m \in MoveKeys :
            LET after == AfterKey(m[1], "I")
            IN  IF Fits(current_piece, m[2], m[3])
                THEN after = [Session EXCEPT
                                 !.current_piece.x = @ + m[2],
                                 !.current_piece.y = @ + m[3],
                                 !.score = IF m[1] = "DOWN" THEN @ + 1 ELSE @]
                ELSE after = Session

\* a piece at the left wall resting on the stack: move-left and soft drop
\* change nothing, move-right shifts it
C21_Witness ==
    /\ state = "Playing"
    /\ grid # EmptyGrid
    /\ current_piece.y + Len(current_piece.shape) < GRID_HEIGHT
    /\ AfterKey("LEFT", "I") = Session
    /\ AfterKey("DOWN", "I") = Session
    /\ AfterKey("RIGHT", "I").current_piece.x = current_piece.x + 1

(***************************************************************************)
(* C22                                                                     *)
(***************************************************************************)
\* C22: in every reachable Playing state a tick adds its elapsed time to
\* the fall timer; if the timer is then >= the fall interval it is reset to
\* 0 and the piece moves down exactly one cell when that is valid and is
\* locked when it is not; if the timer is below the interval only the timer
\* changes.
C22_TickDrivesGravity ==
    state = "Playing" =>
        \A dt \in Deltas, k \in PlayKinds :
            LET after == update(Session, dt, k)
            IN  IF fall_time + dt >= fall_speed
                THEN IF Fits(current_piece, 0, 1)
                     THEN after = [Session EXCEPT !.fall_time = 0,
                                                  !.current_piece.y = @ + 1]
                     ELSE /\ after.fall_time = 0
                          /\ after.grid = WithPiece(grid, current_piece)
                          /\ after.state = "LineClearing"
                               \/ after.current_piece = next_piece
                ELSE after = [Session EXCEPT !.fall_time = @ + dt]

(***************************************************************************)
(* C23                                                                     *)
(***************************************************************************)
\* C23: the ghost placement has the same matrix and the same horizontal
\* origin as the current piece and a vertical origin >= the current
\* piece's; the ghost cannot move one further cell down validly; and
\* computing it (as every frame drawn with the ghost on does) leaves the
\* current piece, the board and every other field of the session unchanged.
C23_GhostRestsBelowPiece ==
    LET ghost == get_ghost_piece(Session)
    IN  /\ ghost.shape = current_piece.shape
        /\ ghost.x = current_piece.x
        /\ ghost.y >= current_piece.y
        /\ ~Fits(ghost, 0, 1)
        /\ after_get_ghost_piece(Session) = Session
        /\ draw_grid(Session) = Session

\* a piece above the stack with the ghost on: the ghost is further down,
\* resting on the stack and not on the floor
C23_Witness ==
    /\ state = "Playing"
    /\ show_ghost
    /\ clearing_lines = << >>
    /\ get_ghost_piece(Session).y > current_piece.y + 1
    /\ get_ghost_piece(Session).y + Len(current_piece.shape) < GRID_HEIGHT

(***************************************************************************)
(* C24                                                                     *)
(***************************************************************************)
\* the piece p is in its default orientation at the spawn origin
AtSpawn(p) ==
    /\ p.shape = SHAPES(p.type)
    /\ p.x = (GRID_WIDTH \div 2) - (Len(p.shape[1]) \div 2)
    /\ p.y = 0

\* the session `after` has the piece `was_next` as its current piece, at
\* the spawn origin, and holding enabled
Spawned(after, was_next) ==
    /\ after.current_piece = was_next
    /\ AtSpawn(after.current_piece)
    /\ after.can_hold = TRUE

\* C24: after any spawn that follows a lock, the end of the line-clear
\* animation or a reset, the current piece is the piece that was next
\* before the spawn, in its default orientation with origin
\* (width div 2 - matrix width div 2, 0), and can_hold is true.
C24_SpawnTakesNextPiece ==
    \A k \in PlayKinds, k2 \in PlayKinds :
        /\ state = "Playing" =>
              LET after == AfterKey("SPACE", k)
              IN  after.state # "LineClearing" => Spawned(after, next_piece)
        /\ (state = "Playing" /\ ~game_over /\ ~Fits(current_piece, 0, 1)) =>
              LET after == update(Session, fall_speed, k)
              IN  after.state # "LineClearing" => Spawned(after, next_piece)
        /\ (state = "LineClearing" /\ ~game_over) =>
              Spawned(update(Session, CLEAR_ANIMATION_DURATION, k), next_piece)
        /\ state = "GameOver" =>
              Spawned(handle_input(Session, "r", k, k2), Tetromino(k))

\* a resting piece that came from the hold slot, so that holding is
\* disabled: the lock spawns the next piece and enables holding again
C24_Witness ==
    /\ state = "Playing"
    /\ ~game_over
    /\ ~can_hold
    /\ ~Fits(current_piece, 0, 1)
    /\ update(Session, fall_speed, "I").state = "Playing"
    /\ update(Session, fall_speed, "I").can_hold
    /\ update(Session, fall_speed, "I").current_piece = next_piece
    /\ update(Session, fall_speed, "I").grid # grid

(***************************************************************************)
(* C25                                                                     *)
(***************************************************************************)
\* C25: for each of the 7 piece kinds and each of its orientations, four
\* consecutive clockwise rotations restore the occupancy matrix exactly
\* (same dimensions, same cells).
C25_FourTurnsRestore ==
    LET m == current_piece.shape
        back == Turned(m, 4)
    IN  /\ Len(back) = Len(m)
        /\ \A i \in 1..Len(m) :
               /\ Len(back[i]) = Len(m[i])
               /\ \A j \in 1..Len(m[i]) : back[i][j] = m[i][j]

\* a piece that is not square and has four different orientations, in an
\* orientation other than its default one
C25_Witness ==
    /\ current_piece.type = "L"
    /\ current_piece.shape # SHAPES("L")
    /\ Len(current_piece.shape) # Len(current_piece.shape[1])
    /\ Turned(current_piece.shape, 1) # current_piece.shape
    /\ Turned(current_piece.shape, 2) # current_piece.shape
    /\ Turned(current_piece.shape, 3) # current_piece.shape

(***************************************************************************)
(* C26                                                                     *)
(***************************************************************************)
\* the matrix m with rows and columns exchanged
Transpose(m) == [i \in 1..Len(m[1]) |-> [j \in 1..Len(m) |-> m[j][i]]]

\* the matrix m with each of its rows reversed
ReverseEachRow(m) ==
    [i \in 1..Len(m) |-> [j \in 1..Len(m[i]) |-> m[i][Len(m[i]) + 1 - j]]]

\* the matrix m with its rows in the reverse order
ReverseRowOrder(m) == [i \in 1..Len(m) |-> m[Len(m) + 1 - i]]

\* C26 as claimed: for every piece matrix, rotateClockwise yields the
\* matrix obtained by transposing and then reversing each row, and
\* rotateCounterclockwise yields the matrix obtained by reversing the order
\* of the rows and then transposing.
C26_RotationsAsClaimed ==
    LET m == current_piece.shape
    IN  /\ rotate_clockwise(m) = ReverseEachRow(Transpose(m))
        /\ rotate_counterclockwise(m) = Transpose(ReverseRowOrder(m))

\* C26 as amended: for every piece matrix, rotateClockwise yields the
\* matrix obtained by transposing and then reversing each row, and
\* rotateCounterclockwise yields the matrix obtained by transposing and then
\* reversing the order of the rows.
C26_RotationsAsCoded ==
    LET m == current_piece.shape
    IN  /\ rotate_clockwise(m) = ReverseEachRow(Transpose(m))
        /\ rotate_counterclockwise(m) = ReverseRowOrder(Transpose(m))

\* a J piece lying on its side: its two rotations differ, and each undoes
\* the other
C26_Witness ==
    /\ current_piece.type = "J"
    /\ Len(current_piece.shape) = 3
    /\ rotate_clockwise(current_piece.shape)
         # rotate_counterclockwise(current_piece.shape)
    /\ rotate_counterclockwise(rotate_clockwise(current_piece.shape))
         = current_piece.shape

(***************************************************************************)
(* C27: sessions constructed for other grid sizes.  The grid size of a     *)
(* session is the pair of module constants GRID_WIDTH, GRID_HEIGHT;        *)
(* construct(W, H, ...) is TetrisGame.__init__ run with the pair (W, H).   *)
(***************************************************************************)
\* len(range(n))
range_len(n) == IF n < 0 THEN 0 ELSE n

\* Tetromino.__init__ when GRID_WIDTH is W
Tetromino_sized(W, k) ==
    [type  |-> k,
     shape |-> SHAPES(k),
     color |-> COLORS(k),
     x     |-> (W \div 2) - (Len(SHAPES(k)[1]) \div 2),
     y     |-> 0]

\* TetrisGame.is_valid_position when GRID_WIDTH is W and GRID_HEIGHT is H
is_valid_position_sized(W, H, g, piece, offset_x, offset_y) ==
    LET blocks == get_blocks(piece)
    IN  \A i \in 1..Len(blocks) :
            LET new_x == blocks[i][1] + offset_x
                new_y == blocks[i][2] + offset_y
            IN  /\ ~(new_x < 0 \/ new_x >= W \/ new_y >= H)
                /\ ~(new_y >= 0 /\ g[new_y + 1][new_x + 1] # None)

\* TetrisGame.__init__ when GRID_WIDTH is W and GRID_HEIGHT is H: the
\* session it returns; k1 and k2 are the kinds of the two random draws
construct(W, H, k1, k2) ==
    LET t == [grid |-> Repeat(Repeat(None, range_len(W)), range_len(H)),
              current_piece |-> Tetromino_sized(W, k1),
              next_piece |-> Tetromino_sized(W, k2),
              hold_piece |-> NoPiece,
              can_hold |-> TRUE,
              score |-> 0,
              level |-> 1,
              lines_cleared |-> 0,
              game_over |-> FALSE,
              fall_time |-> 0,
              fall_speed |-> INITIAL_FALL_SPEED,
              clearing_lines |-> << >>,
              clear_animation_time |-> 0,
              show_ghost |-> TRUE,
              state |-> "Playing"]
    IN  IF ~is_valid_position_sized(W, H, t.grid, t.current_piece, 0, 0)
        THEN [t EXCEPT !.game_over = TRUE, !.state = "GameOver"]
        ELSE t

\* the grid widths and heights sessions are constructed with
Widths == {-1, 0, GRID_WIDTH}
Heights == {-1, 0, GRID_HEIGHT}

\* the grid g is GRID_WIDTH wide and GRID_HEIGHT high
DefaultSized(g) ==
    /\ Len(g) = GRID_HEIGHT
    /\ \A y \in 1..Len(g) : Len(g[y]) = GRID_WIDTH

\* the fields of a session just constructed as s
Starts(s) ==
    /\ grid = s.grid
    /\ current_piece = s.current_piece
    /\ next_piece = s.next_piece
    /\ hold_piece = s.hold_piece
    /\ can_hold = s.can_hold
    /\ score = s.score
    /\ level = s.level
    /\ lines_cleared = s.lines_cleared
    /\ game_over = s.game_over
    /\ fall_time = s.fall_time
    /\ fall_speed = s.fall_speed
    /\ clearing_lines = s.clearing_lines
    /\ clear_animation_time = s.clear_animation_time
    /\ show_ghost = s.show_ghost
    /\ state = s.state

InitConfig ==
    \E W \in Widths, H \in Heights :
        \E k1 \in IF W = GRID_WIDTH /\ H = GRID_HEIGHT THEN PlayKinds ELSE AllKinds,
           k2 \in IF W = GRID_WIDTH /\ H = GRID_HEIGHT THEN PlayKinds ELSE AllKinds :
            Starts(construct(W, H, k1, k2))

\* the sessions of the other grid sizes are explored as constructed; the
\* play of the sessions of the default size is explored as in Spec
NextConfig == DefaultSized(grid) /\ Next

SpecConfig == InitConfig /\ [][NextConfig]_vars

\* C27: constructing a session whose configuration has a zero or negative
\* grid width or height fails at construction time, so that no session in
\* Playing (or any other state) results from such a configuration: every
\* session there is has a grid of at least one row and one column.
C27_BadConfigFailsAtConstruction ==
    /\ Len(grid) > 0
    /\ \A y \in 1..Len(grid) : Len(grid[y]) > 0

(***************************************************************************)
(* C28: play on a taller board.  X_sized(W, H, ...) is the method X run    *)
(* with GRID_WIDTH = W and GRID_HEIGHT = H.                                *)
(***************************************************************************)
\* TetrisGame.spawn_new_piece; k is the kind get_random_piece draws
spawn_new_piece_sized(W, H, s, k) ==
    LET t == [s EXCEPT !.current_piece = s.next_piece,
                       !.next_piece = Tetromino_sized(W, k),
                       !.can_hold = TRUE]
    IN  IF ~is_valid_position_sized(W, H, t.grid, t.current_piece, 0, 0)
        THEN [t EXCEPT !.game_over = TRUE, !.state = "GameOver"]
        ELSE t

\* TetrisGame.move_piece: the value it returns
move_ok_sized(W, H, s, dx, dy) ==
    is_valid_position_sized(W, H, s.grid, s.current_piece, dx, dy)

\* TetrisGame.move_piece: the session it leaves
move_piece_sized(W, H, s, dx, dy) ==
    IF move_ok_sized(W, H, s, dx, dy)
    THEN [s EXCEPT !.current_piece.x = @ + dx, !.current_piece.y = @ + dy]
    ELSE s

\* TetrisGame.rotate_piece: the first wall kick of `kicks` (a sequence of
\* offsets) that is valid for the rotated piece r, or 0 when none is
RECURSIVE first_kick_sized(_, _, _, _, _, _)
first_kick_sized(W, H, g, r, kicks, i) ==
    IF i > Len(kicks) THEN 0
    ELSE IF is_valid_position_sized(W, H, g, r, kicks[i][1], kicks[i][2]) THEN i
    ELSE first_kick_sized(W, H, g, r, kicks, i + 1)

\* TetrisGame.rotate_piece
rotate_piece_sized(W, H, s) ==
    LET original_shape == s.current_piece.shape
        r == [s.current_piece EXCEPT !.shape = rotate_clockwise(original_shape)]
        i == first_kick_sized(W, H, s.grid, r, KICKS, 1)
    IN  IF i # 0
        THEN [s EXCEPT !.current_piece =
                 [r EXCEPT !.x = @ + KICKS[i][1], !.y = @ + KICKS[i][2]]]
        ELSE [s EXCEPT !.current_piece = [r EXCEPT !.shape = original_shape]]

\* the number of times `while self.move_piece(0, 1)` moves the piece p
\* (hard_drop), or `while self.is_valid_position(ghost, 0, 1)` the ghost
RECURSIVE drop_distance_sized(_, _, _, _)
drop_distance_sized(W, H, g, p) ==
    IF is_valid_position_sized(W, H, g, p, 0, 1)
    THEN 1 + drop_distance_sized(W, H, g, [p EXCEPT !.y = @ + 1])
    ELSE 0

\* the rows clear_lines finds complete, top to bottom (0-based), from
\* row y on
RECURSIVE lines_to_clear_sized(_, _, _, _)
lines_to_clear_sized(W, H, g, y) ==
    IF y >= H THEN << >>
    ELSE IF \A x \in 0..(W - 1) : g[y + 1][x + 1] # None
         THEN <<y>> \o lines_to_clear_sized(W, H, g, y + 1)
         ELSE lines_to_clear_sized(W, H, g, y + 1)

\* TetrisGame.clear_lines
clear_lines_sized(W, H, s) ==
    LET lines == lines_to_clear_sized(W, H, s.grid, 0)
        num_lines == Len(lines)
        total == s.lines_cleared + num_lines
        new_level == (total \div LINES_PER_LEVEL) + 1
        t == [s EXCEPT !.clearing_lines = lines,
                       !.clear_animation_time = 0,
                       !.lines_cleared = total,
                       !.score = @ + line_scores(num_lines) * s.level,
                       !.state = "LineClearing"]
    IN  IF lines = << >> THEN s
        ELSE IF new_level > s.level
        THEN [t EXCEPT !.level = new_level,
                       !.fall_speed = max(MIN_FALL_SPEED,
                           INITIAL_FALL_SPEED - (new_level - 1) * FALL_SPEED_STEP)]
        ELSE t

\* TetrisGame.lock_piece; k is the kind the spawn draws
lock_piece_sized(W, H, s, k) ==
    LET t == clear_lines_sized(W, H,
                 [s EXCEPT !.grid = lock_cells(s.grid, get_blocks(s.current_piece),
                                               s.current_piece.color, 1)])
    IN  IF t.clearing_lines = << >> THEN spawn_new_piece_sized(W, H, t, k) ELSE t

\* TetrisGame.hard_drop
hard_drop_sized(W, H, s, k) ==
    LET d == drop_distance_sized(W, H, s.grid, s.current_piece)
    IN  lock_piece_sized(W, H, [s EXCEPT !.current_piece.y = @ + d,
                                         !.score = @ + d * HARD_DROP_BONUS], k)

\* del g[y]; g.insert(0, [None] * GRID_WIDTH)
delete_and_insert_sized(W, H, g, y) ==
    <<Repeat(None, range_len(W))>> \o SubSeq(g, 1, y) \o SubSeq(g, y + 2, Len(g))

\* the loop of finish_clearing_animation: for y in reversed(lines), from
\* the i-th line of `lines` down to the first
RECURSIVE remove_lines_sized(_, _, _, _, _)
remove_lines_sized(W, H, g, lines, i) ==
    IF i = 0 THEN g
    ELSE remove_lines_sized(W, H, delete_and_insert_sized(W, H, g, lines[i]),
                            lines, i - 1)

\* TetrisGame.finish_clearing_animation
finish_clearing_animation_sized(W, H, s, k) ==
    IF s.clearing_lines # << >>
    THEN spawn_new_piece_sized(W, H,
             [s EXCEPT !.grid = remove_lines_sized(W, H, s.grid, s.clearing_lines,
                                                   Len(s.clearing_lines)),
                       !.clearing_lines = << >>], k)
    ELSE s

\* TetrisGame.hold_current_piece
hold_current_piece_sized(W, H, s, k) ==
    IF ~s.can_hold THEN s
    ELSE IF s.hold_piece = NoPiece
    THEN [spawn_new_piece_sized(W, H,
              [s EXCEPT !.hold_piece = Tetromino_sized(W, s.current_piece.type)], k)
             EXCEPT !.can_hold = FALSE]
    ELSE [s EXCEPT !.current_piece = Tetromino_sized(W, s.hold_piece.type),
                   !.hold_piece = Tetromino_sized(W, s.current_piece.type),
                   !.can_hold = FALSE]

\* TetrisGame.reset_game; k1 and k2 are the kinds of the two random pieces
reset_game_sized(W, H, s, k1, k2) ==
    spawn_new_piece_sized(W, H,
        [s EXCEPT !.grid = Repeat(Repeat(None, range_len(W)), range_len(H)),
                  !.score = 0, !.level = 1,
                  !.lines_cleared = 0, !.game_over = FALSE,
                  !.fall_speed = INITIAL_FALL_SPEED, !.clearing_lines = << >>,
                  !.clear_animation_time = 0, !.next_piece = Tetromino_sized(W, k1),
                  !.hold_piece = NoPiece, !.can_hold = TRUE,
                  !.state = "Playing"], k2)

\* PlayingState.handle_input
Playing_handle_input_sized(W, H, s, key, k) ==
    CASE key = "LEFT"  -> move_piece_sized(W, H, s, -1, 0)
      [] key = "RIGHT" -> move_piece_sized(W, H, s, 1, 0)
      [] key = "DOWN"  -> IF move_ok_sized(W, H, s, 0, 1)
                          THEN [move_piece_sized(W, H, s, 0, 1)
                                    EXCEPT !.score = @ + SOFT_DROP_BONUS]
                          ELSE s
      [] key = "UP"    -> rotate_piece_sized(W, H, s)
      [] key = "SPACE" -> hard_drop_sized(W, H, s, k)
      [] key = "c"     -> hold_current_piece_sized(W, H, s, k)
      [] key = "g"     -> [s EXCEPT !.show_ghost = ~@]
      [] key = "p"     -> [s EXCEPT !.state = "Paused"]
      [] OTHER         -> s

\* GameOverState.handle_input
GameOver_handle_input_sized(W, H, s, key, k1, k2) ==
    IF key = "r"
    THEN [reset_game_sized(W, H, s, k1, k2) EXCEPT !.state = "Playing"]
    ELSE s

\* TetrisGame.handle_input, for a KEYDOWN event
handle_input_sized(W, H, s, key, k1, k2) ==
    CASE s.state = "Playing"      -> Playing_handle_input_sized(W, H, s, key, k1)
      [] s.state = "Paused"       -> Paused_handle_input(s, key)
      [] s.state = "LineClearing" -> LineClearing_handle_input(s, key)
      [] s.state = "GameOver"     -> GameOver_handle_input_sized(W, H, s, key, k1, k2)

\* PlayingState.update
Playing_update_sized(W, H, s, delta_time, k) ==
    LET t == [s EXCEPT !.fall_time = @ + delta_time]
    IN  IF t.fall_time >= t.fall_speed
        THEN LET u == [t EXCEPT !.fall_time = 0]
             IN  IF move_ok_sized(W, H, u, 0, 1)
                 THEN move_piece_sized(W, H, u, 0, 1)
                 ELSE lock_piece_sized(W, H, u, k)
        ELSE t

\* LineClearingState.update
LineClearing_update_sized(W, H, s, delta_time, k) ==
    LET t == [s EXCEPT !.clear_animation_time = @ + delta_time]
    IN  IF t.clear_animation_time >= CLEAR_ANIMATION_DURATION
        THEN [finish_clearing_animation_sized(W, H, t, k) EXCEPT !.state = "Playing"]
        ELSE t

\* TetrisGame.update
update_sized(W, H, s, delta_time, k) ==
    IF s.game_over THEN s
    ELSE CASE s.state = "Playing" ->
                  Playing_update_sized(W, H, s, delta_time, k)
           [] s.state = "LineClearing" ->
                  LineClearing_update_sized(W, H, s, delta_time, k)
           [] OTHER -> s

\* the height of the taller board, and the kinds drawn in the play on it
TallHeight == 13
TallKinds == {"I"}

\* TetrisGame.__init__ with GRID_HEIGHT = TallHeight
InitTall ==
    \E k1 \in TallKinds, k2 \in TallKinds :
        Starts(construct(GRID_WIDTH, TallHeight, k1, k2))

\* one KEYDOWN event of the run loop
KeyDownTall ==
    \E key \in Keys :
        \E k1 \in TallKinds, k2 \in TallKinds :
            \E s \in {handle_input_sized(GRID_WIDTH, TallHeight, Session, key, k1, k2)} :
                Becomes(s)

\* one update(delta_time) call of the run loop, and the draw() after it
TickTall ==
    \E delta_time \in Deltas :
        \E k \in TallKinds :
            \E s \in {draw_grid(update_sized(GRID_WIDTH, TallHeight, Session,
                                             delta_time, k))} :
                Becomes(s)

\* the numbers of cleared lines of the play explored: a clear of four rows,
\* and the clear after it
TallClears == {0, 4, 10}

\* the part of a game on the taller board the model explores: no hold, no
\* pause, the ghost shown, ticks of a whole fall interval, no points from
\* drops, and the line counts of TallClears
ExploredTall ==
    /\ hold_piece = NoPiece
    /\ show_ghost
    /\ state # "Paused"
    /\ fall_time = 0
    /\ score % 100 = 0
    /\ lines_cleared \in TallClears

NextTall == (KeyDownTall \/ TickTall) /\ ExploredTall'

SpecTall == InitTall /\ [][NextTall]_vars

\* C28: full-row detection never finds more than 4 full rows at once: in
\* every reachable state the set of clearing rows has between 0 and 4
\* elements, so that every line clear in progress was scored with a
\* non-zero base value.
C28_AtMostFourFullRows ==
    /\ Len(clearing_lines) \in 0..4
    /\ state = "LineClearing" => line_scores(Len(clearing_lines)) # 0

(***************************************************************************)
(* C29                                                                     *)
(***************************************************************************)
\* the keys that in the state st neither lock a piece nor reset the game
QuietKeys(st) ==
    Keys \ (CASE st = "Playing"  -> {"SPACE"}
              [] st = "GameOver" -> {"r"}
              [] OTHER           -> {})

\* the tick of delta_time ms locks the resting piece
LockingTick(delta_time) ==
    /\ state = "Playing"
    /\ ~game_over
    /\ fall_time + delta_time >= fall_speed
    /\ ~Fits(current_piece, 0, 1)

\* the tick of delta_time ms ends the clearing animation
FinishingTick(delta_time) ==
    /\ state = "LineClearing"
    /\ ~game_over
    /\ clear_animation_time + delta_time >= CLEAR_ANIMATION_DURATION

\* C29: board cells change only through lock, row removal at the end of
\* the clearing animation, and reset: move-left/right, soft drop, rotate,
\* hold, toggle-ghost, pause/unpause, the ghost computation and any tick
\* that does not lock or finish an animation leave every board cell
\* unchanged.
C29_BoardChangesOnlyByLockRemovalReset ==
    /\ \A k \in PlayKinds : \A key \in QuietKeys(state) :
           AfterKey(key, k).grid = grid
    /\ draw_grid(Session).grid = grid
    /\ get_ghost_piece(Session).type = current_piece.type
    /\ \A k \in PlayKinds : \A delta_time \in Deltas :
           (~LockingTick(delta_time) /\ ~FinishingTick(delta_time)) =>
               draw_grid(update(Session, delta_time, k)).grid = grid

\* a piece resting on a board that has cells: the soft drop leaves the
\* board alone, the hard drop writes the piece into it
C29_Witness ==
    /\ state = "Playing"
    /\ ~game_over
    /\ grid # EmptyGrid
    /\ ~Fits(current_piece, 0, 1)
    /\ current_piece.y >= 0
    /\ AfterKey("DOWN", "I") = Session
    /\ AfterKey("SPACE", "I").grid # grid

(***************************************************************************)
(* C30                                                                     *)
(***************************************************************************)
\* the piece p has an occupied cell above row 0
Above(p) == \E c \in CoveredCells(p, 0, 0) : c[2] < 0

\* the sessions a lock of the resting current piece leaves: by the hard
\* drop, and by the tick that finds the piece resting
AfterLock(k) ==
    {AfterKey("SPACE", k)}
        \cup (IF game_over THEN {} ELSE {update(Session, fall_speed, k)})

\* C30: a piece can be locked while at least one of its occupied cells has
\* a negative y; at that lock the cells with y >= 0 are written to the
\* board and those with y < 0 are not, and the lock itself does not end the
\* game: the state is GameOver afterwards only when no row was completed
\* and the piece spawned next overlaps the board.
C30_LockAboveTheBoard ==
    (state = "Playing" /\ Above(current_piece) /\ ~Fits(current_piece, 0, 1)) =>
        \A k \in PlayKinds : \A after \in AfterLock(k) :
            /\ \A y \in 1..GRID_HEIGHT : \A x \in 1..GRID_WIDTH :
                   after.grid[y][x] =
                       IF <<x - 1, y - 1>> \in CoveredCells(current_piece, 0, 0)
                       THEN current_piece.color
                       ELSE grid[y][x]
            /\ Len(after.grid) = GRID_HEIGHT
            /\ after.state = "GameOver" <=>
                   /\ FullRows(after.grid) = {}
                   /\ \E c \in CoveredCells(next_piece, 0, 0) :
                          c[2] >= 0 /\ after.grid[c[2] + 1][c[1] + 1] # None

\* a piece resting partly above the board, whose lock writes the cells below
\* row 0's upper edge and leaves the game in play
C30_Witness ==
    /\ state = "Playing"
    /\ ~game_over
    /\ Above(current_piece)
    /\ \E c \in CoveredCells(current_piece, 0, 0) : c[2] >= 0
    /\ ~Fits(current_piece, 0, 1)
    /\ \A after \in AfterLock("O") :
           /\ after.state # "GameOver"
           /\ ~after.game_over
           /\ after.grid # grid

(***************************************************************************)
(* C31                                                                     *)
(***************************************************************************)
\* the sessions one key or one tick leaves
AfterStep ==
    {AfterKey(key, k) : key \in Keys, k \in PlayKinds}
        \cup {draw_grid(update(Session, delta_time, k)) :
                  delta_time \in Deltas, k \in PlayKinds}

\* C31: whenever the state machine is in LineClearing, the animation timer
\* satisfies 0 <= elapsed < animation duration, so that the progress
\* fraction elapsed / duration lies in [0, 1]; the timer is 0 at the moment
\* LineClearing is entered.
C31_AnimationTimerInRange ==
    /\ state = "LineClearing" =>
           /\ 0 <= clear_animation_time
           /\ clear_animation_time < CLEAR_ANIMATION_DURATION
    /\ state # "LineClearing" =>
           \A after \in AfterStep :
               after.state = "LineClearing" => after.clear_animation_time = 0

\* the second animation of a game under way: it was entered with the timer
\* of the first one, which had run out, still on the clock
C31_Witness ==
    /\ state = "LineClearing"
    /\ ~game_over
    /\ clear_animation_time > 0
    /\ lines_cleared > Len(clearing_lines)

(***************************************************************************)
(* C32                                                                     *)
(***************************************************************************)
\* C32: in every reachable state in which the state machine is Playing,
\* the active piece is at a valid placement: every occupied cell has
\* 0 <= x < width and y < height, and no occupied cell with y >= 0
\* coincides with an occupied board cell.
C32_ActivePieceIsValid ==
    state = "Playing" => Fits(current_piece, 0, 0)

(***************************************************************************)
(* C33                                                                     *)
(***************************************************************************)
\* C33: after a Hold action that swaps the current piece with an already
\* held piece, either the new current piece is at a valid placement at its
\* spawn position (no overlap with locked board cells) or the state machine
\* is in GameOver, so that a later lock of that piece never overwrites a
\* board cell that was already occupied.
C33_SwappedPieceIsValid ==
    (state = "Playing" /\ can_hold /\ hold_piece # NoPiece) =>
        \A k \in PlayKinds :
            LET after == AfterKey("c", k)
            IN  \/ after.state = "GameOver"
                \/ /\ Fits(after.current_piece, 0, 0)
                   /\ \A c \in CoveredCells(after.current_piece, 0,
                                             drop_distance(grid, after.current_piece)) :
                          c[2] >= 0 => grid[c[2] + 1][c[1] + 1] = None

(***************************************************************************)
(* C34                                                                     *)
(***************************************************************************)
\* C34: in every reachable state the game_over flag is true if and only if
\* the state machine is in GameOver: the flag that stops the tick updates
\* and the state that accepts the restart never disagree.
C34_FlagIffGameOverState ==
    game_over <=> state = "GameOver"

(***************************************************************************)
(* C35                                                                     *)
(***************************************************************************)
\* C35: in every reachable state in which the state machine is Playing, no
\* row of the board is completely filled: every full row has been removed
\* by the time control returns to Playing.
C35_NoFullRowInPlaying ==
    state = "Playing" =>
        \A y \in 1..GRID_HEIGHT : \E x \in 1..GRID_WIDTH : grid[y][x] = None

(***************************************************************************)
(* C36                                                                     *)
(***************************************************************************)
\* C36: the game can never freeze permanently: there is no reachable state
\* in which every input action and every tick of positive elapsed time
\* leaves the session unchanged.
C36_NeverFrozen ==
    \E after \in AfterStep : after # Session

====
